---- MODULE Spec2Model ----
(***************************************************************************)
(* The three course notebooks as one state machine.                        *)
(*                                                                         *)
(*   "nonlin"  hillslope_nonlineardiffusion_class_notebook.ipynb           *)
(*   "chan"    channels_hillslopes_notebook.ipynb, first notebook          *)
(*   "lin"     channels_hillslopes_notebook.ipynb, second notebook         *)
(*                                                                         *)
(* The state is the kernel's namespace: the names the code cells bind, the *)
(* grid objects those names refer to, and the position of the running loop *)
(* cell.  An action is the execution of one code cell with the parameter   *)
(* values the user has typed into it; the loop cell (Code Block 7) is      *)
(* split into its statements, and no other cell runs while it is running.  *)
(*                                                                         *)
(* Units.  Elevation: 1e-5 m.  Uplift rate: 1e-5 m/yr.  Time: years.       *)
(* Diffusivity: 0.01 m^2/yr.  Erodibility K_sp: 1e-5.  Node ids are 1..N   *)
(* (the library counts from 0), row-major from the lower-left corner.      *)
(* Floating point is modelled by exact integers: an elevation is a whole   *)
(* number of units, and a flux is rounded toward zero.                     *)
(***************************************************************************)
EXTENDS Integers, Sequences, FiniteSets, TLC

(***************************************************************************)
(* Bounds of the model.  The course grids are 41 x 5 and 120 x 120; the    *)
(* model's grids have the same layout on fewer nodes.                      *)
(***************************************************************************)
HillRows == 5
HillCols == 3
ChanRows == 4
ChanCols == 4
\* The most loop iterations a run of the kernel starts.
MaxIters == 4
\* The most executions of a parameter cell with values other than the course's.
MaxEdits == 1
\* The most grids a run of the kernel constructs.
MaxGrids == 2
MaxFails == 1
\* The iterations of the course's run that are followed: its loop cell run
\* twice.
CourseSteps == 1600

(***************************************************************************)
(* Program constants.                                                      *)
(***************************************************************************)
HillDx == 5
ChanDx == 100
Seed == 56
NoiseRange == 100
Sc == 100
ChanDt == 1000
HillD0 == 1
ChanD0 == 50
Ksp0 == 1
Uplift0 == 10
\* RasterModelGrid((41, 5), 5.0)
CourseRows == 41
CourseCols == 5
\* runtime = 1000000, in years.
CourseRuntime == 1000000
\* radius = 15, the search radius of the relief window, in m.
SearchRadius == 15
\* min_drainage_area = 1000.0 of the SteepnessFinder, in m^2.
MinDrainageArea == 1000

Notebooks == {"nonlin", "lin", "chan"}
Hillslope == {"nonlin", "lin"}

(***************************************************************************)
(* Values the user types into the cells.                                   *)
(***************************************************************************)
HillDValues == {0, HillD0, 2 * HillD0}
\* The same with a negative diffusivity typed in.
SignedDValues == HillDValues \cup {-HillD0}
ChanDValues == {0, ChanD0}
KspValues == {0, Ksp0}
UpliftValues == {Uplift0, 4 * Uplift0}
\* The course runs 1,000,000 years, 800 steps (hillslope) and 1000 steps
\* (channels); the model runs two steps, or two steps and a part of one.
HillRuntime0 == 2 * ((50 * HillDx * HillDx) \div HillD0)
RuntimeValues == {HillRuntime0, HillRuntime0 + 1500}
Tmax0 == 2 * ChanDt
TmaxValues == {Tmax0, Tmax0 + 500}

(***************************************************************************)
(* Arithmetic helpers.                                                     *)
(***************************************************************************)
Abs(a) == IF a >= 0 THEN a ELSE -a

\* Division rounding toward zero (b > 0): a flux of -x is minus a flux of x.
TruncDiv(a, b) == IF a >= 0 THEN a \div b ELSE -((-a) \div b)

RECURSIVE Gcd(_, _)
Gcd(a, b) == IF b = 0 THEN a ELSE Gcd(b, a % b)

Min2(a, b) == IF a <= b THEN a ELSE b

Max2(a, b) == IF a >= b THEN a ELSE b

RECURSIVE SumOver(_, _)
\* The sum of f[x] over the finite set S.
SumOver(f, S) ==
    IF S = {} THEN 0
    ELSE LET x == CHOOSE y \in S : TRUE IN f[x] + SumOver(f, S \ {x})

RECURSIVE SqrtBetween(_, _, _)
\* The largest r in lo..hi with r * r <= a, where lo * lo <= a.
SqrtBetween(a, lo, hi) ==
    IF lo = hi THEN lo
    ELSE LET mid == (lo + hi + 1) \div 2
         IN  IF mid * mid <= a THEN SqrtBetween(a, mid, hi)
             ELSE SqrtBetween(a, lo, mid - 1)

\* The largest r with r * r <= a, for a >= 0.
ISqrt(a) == SqrtBetween(a, 0, Min2(a, 46340))

(***************************************************************************)
(* The grid: RasterModelGrid.                                              *)
(***************************************************************************)
NoField == << >>

NodesOf(g) == 1..(g.rows * g.cols)

RowOf(g, n) == (n - 1) \div g.cols

ColOf(g, n) == (n - 1) % g.cols

IsPerimeter(g, n) ==
    \/ RowOf(g, n) = 0
    \/ RowOf(g, n) = g.rows - 1
    \/ ColOf(g, n) = 0
    \/ ColOf(g, n) = g.cols - 1

\* RasterModelGrid((rows, cols), dx): the perimeter is open (fixed value), the
\* interior is core, and the grid holds no field yet.  age is not a field of
\* the program: it counts the uplift statements applied to the grid's
\* elevation array.
RasterModelGrid(rows, cols, dx) ==
    LET shape == [rows |-> rows, cols |-> cols]
    IN  [live |-> TRUE, age |-> 0, rows |-> rows, cols |-> cols, dx |-> dx,
         status |-> [n \in 1..(rows * cols) |->
                        IF IsPerimeter(shape, n) THEN "open" ELSE "core"],
         z |-> NoField, rcvr |-> NoField, slope |-> NoField,
         area |-> NoField]

\* A slot of the heap that holds no grid.
FreeGrid ==
    [live |-> FALSE, age |-> 0, rows |-> 0, cols |-> 0, dx |-> 0,
     status |-> NoField, z |-> NoField, rcvr |-> NoField, slope |-> NoField,
         area |-> NoField]

\* mg.add_zeros("topographic__elevation", at="node")
AddZeros(g) == [g EXCEPT !.z = [n \in NodesOf(g) |-> 0]]

\* Not the program: the nodes that are not closed, taken for the core nodes.
NotClosedNodes(g) == {n \in NodesOf(g) : g.status[n] # "closed"}

\* mg.core_nodes
CoreNodes(g) == {n \in NodesOf(g) : g.status[n] = "core"}

\* mg.boundary_nodes: the open (fixed value) and the closed nodes.
BoundaryNodes(g) == {n \in NodesOf(g) : g.status[n] \in {"open", "closed"}}

OpenNodes(g) == {n \in NodesOf(g) : g.status[n] = "open"}

\* Not the program: the four arguments read as bottom, left, top, right, so
\* that the call of the notebooks closes the two short edges.
SetClosedBoundariesBottomFirst(g, right, top, left, bottom) ==
    LET closes(n) ==
            \/ right /\ RowOf(g, n) = 0
            \/ left /\ RowOf(g, n) = g.rows - 1
            \/ /\ top
               /\ ColOf(g, n) = 0
               /\ RowOf(g, n) \notin {0, g.rows - 1}
            \/ /\ bottom
               /\ ColOf(g, n) = g.cols - 1
               /\ RowOf(g, n) \notin {0, g.rows - 1}
    IN  [g EXCEPT !.status =
            [n \in NodesOf(g) |-> IF closes(n) THEN "closed" ELSE g.status[n]]]

\* mg.set_closed_boundaries_at_grid_edges(right, top, left, bottom): the corner
\* nodes belong to the bottom and the top edge.
SetClosedBoundariesAtGridEdges(g, right, top, left, bottom) ==
    LET closes(n) ==
            \/ bottom /\ RowOf(g, n) = 0
            \/ top /\ RowOf(g, n) = g.rows - 1
            \/ /\ right
               /\ ColOf(g, n) = g.cols - 1
               /\ RowOf(g, n) \notin {0, g.rows - 1}
            \/ /\ left
               /\ ColOf(g, n) = 0
               /\ RowOf(g, n) \notin {0, g.rows - 1}
    IN  [g EXCEPT !.status =
            [n \in NodesOf(g) |-> IF closes(n) THEN "closed" ELSE g.status[n]]]

\* Not the program: the outlet put at the highest perimeter node.
SetWatershedBoundaryAtHighest(g) ==
    LET perim == {n \in NodesOf(g) : IsPerimeter(g, n)}
        highest == CHOOSE n \in perim :
                      \A m \in perim :
                         \/ g.z[n] > g.z[m]
                         \/ g.z[n] = g.z[m] /\ n <= m
    IN  [g EXCEPT !.status =
            [n \in NodesOf(g) |->
                IF n = highest THEN "open"
                ELSE IF n \in perim THEN "closed" ELSE "core"]]

\* mg1.set_watershed_boundary_condition("topographic__elevation"): every
\* perimeter node is closed except the lowest one, which is the open outlet.
SetWatershedBoundaryCondition(g) ==
    LET perim == {n \in NodesOf(g) : IsPerimeter(g, n)}
        lowest == CHOOSE n \in perim :
                     \A m \in perim :
                        \/ g.z[n] < g.z[m]
                        \/ g.z[n] = g.z[m] /\ n <= m
    IN  [g EXCEPT !.status =
            [n \in NodesOf(g) |->
                IF n = lowest THEN "open"
                ELSE IF n \in perim THEN "closed" ELSE "core"]]

\* The orthogonal neighbours of node n.
Nbrs4(g, n) ==
    {m \in {n - g.cols, n - 1, n + 1, n + g.cols} \cap NodesOf(g) :
        \/ RowOf(g, m) = RowOf(g, n) /\ Abs(ColOf(g, m) - ColOf(g, n)) = 1
        \/ ColOf(g, m) = ColOf(g, n) /\ Abs(RowOf(g, m) - RowOf(g, n)) = 1}

\* The orthogonal and diagonal neighbours of node n.
Nbrs8(g, n) ==
    {m \in ({n + dr * g.cols + dc : dr \in {-1, 0, 1}, dc \in {-1, 0, 1}}
             \cap NodesOf(g)) \ {n} :
        /\ Abs(RowOf(g, m) - RowOf(g, n)) <= 1
        /\ Abs(ColOf(g, m) - ColOf(g, n)) <= 1}

\* A link carries flux when neither end is closed and one end is core.
ActiveLink(g, a, b) ==
    /\ b \in Nbrs4(g, a)
    /\ g.status[a] # "closed"
    /\ g.status[b] # "closed"
    /\ g.status[a] = "core" \/ g.status[b] = "core"

(***************************************************************************)
(* The process components.  Each is configured when it is constructed and  *)
(* keeps a reference to the grid it was constructed on.                    *)
(***************************************************************************)

\* Not the program: the flux of a link rounded down, not toward zero, so that
\* what one end gives is not what the other end receives.
LinkFluxFloored(g, a, b, c, dt) ==
    LET dz  == g.z[a] - g.z[b]
        num == c.D * dt
        den == 100 * g.dx * g.dx
        gg  == Gcd(Abs(num), den)
    IN  (dz * (num \div gg)) \div (den \div gg)

\* Not the program: the flux of a link four times what D, dt and the drop
\* along it give.
LinkFluxFourfold(g, a, b, c, dt) ==
    LET dz  == g.z[a] - g.z[b]
        num == 4 * c.D * dt
        den == 100 * g.dx * g.dx
        gg  == Gcd(Abs(num), den)
    IN  TruncDiv(dz * (num \div gg), den \div gg)

\* What moves from node a to node b over one link in a step of length dt:
\* D * dt * (z[a] - z[b]) / dx^2, and for the Taylor diffuser that times
\* 1 + (S / Sc)^2 with the slope S in percent.
LinkFlux(g, a, b, c, dt) ==
    LET dz  == g.z[a] - g.z[b]
        num == c.D * dt
        den == 100 * g.dx * g.dx
        gg  == Gcd(Abs(num), den)
        lin == TruncDiv(dz * (num \div gg), den \div gg)
        pct == TruncDiv(dz, 1000 * g.dx)
    IN  IF c.kind = "taylor"
        THEN lin + TruncDiv(lin * pct * pct, (100 * Sc) * (100 * Sc))
        ELSE lin

\* The net amount node n receives over its active links.
NetInflow(g, n, c, dt) ==
    LET from == {m \in Nbrs4(g, n) : ActiveLink(g, m, n)}
    IN  SumOver([m \in from |-> LinkFlux(g, m, n, c, dt)], from)

\* What leaves the core nodes through the open boundary nodes in one step.
Outflow(g, c, dt) ==
    LET pairs == {p \in CoreNodes(g) \X OpenNodes(g) :
                     ActiveLink(g, p[1], p[2])}
    IN  SumOver([p \in pairs |-> LinkFlux(g, p[1], p[2], c, dt)], pairs)

\* LinearDiffuser.run_one_step(dt) and TaylorNonLinearDiffuser.run_one_step(dt):
\* every core node changes by its net inflow; with deposit=False a node that
\* would gain material keeps its elevation.  Boundary nodes keep theirs.
Diffuse(g, c, dt) ==
    [g EXCEPT !.z =
        [n \in NodesOf(g) |->
            IF g.status[n] # "core" THEN g.z[n]
            ELSE LET dz == NetInflow(g, n, c, dt)
                 IN  g.z[n] + (IF c.deposit THEN dz ELSE Min2(dz, 0))]]

\* The slope from node n down to its neighbour m, in 1e-5 m per m, the
\* diagonal being 1.414 times as long.
SlopeTo(g, n, m) ==
    LET w == IF RowOf(g, n) # RowOf(g, m) /\ ColOf(g, n) # ColOf(g, m)
             THEN 1414 ELSE 1000
    IN  TruncDiv((g.z[n] - g.z[m]) * 1000, g.dx * w)

\* The node that node n drains to: its steepest lower neighbour that is not
\* closed, or itself (a boundary node, a pit).
ReceiverOf(g, n, diagonals) ==
    LET nbrs == {m \in (IF diagonals THEN Nbrs8(g, n) ELSE Nbrs4(g, n)) :
                    g.status[m] # "closed" /\ SlopeTo(g, n, m) > 0}
    IN  IF g.status[n] # "core" \/ nbrs = {} THEN n
        ELSE CHOOSE m \in nbrs :
                \A o \in nbrs :
                   \/ SlopeTo(g, n, m) > SlopeTo(g, n, o)
                   \/ SlopeTo(g, n, m) = SlopeTo(g, n, o) /\ m <= o

RECURSIVE Downstream(_, _, _)
\* The nodes on the path from node n down the receivers r, at most k links.
Downstream(r, n, k) ==
    IF k = 0 \/ r[n] = n THEN {n} ELSE {n} \cup Downstream(r, r[n], k - 1)

\* FlowAccumulator.run_one_step(): writes the receiver, the steepest slope
\* and the drainage area of every node from the elevation as it is now.
Route(g, diagonals) ==
    LET r == [n \in NodesOf(g) |-> ReceiverOf(g, n, diagonals)]
        N == g.rows * g.cols
    IN  [g EXCEPT
            !.rcvr = r,
            !.slope = [n \in NodesOf(g) |->
                          IF r[n] = n THEN 0 ELSE SlopeTo(g, n, r[n])],
            !.area = [n \in NodesOf(g) |->
                         g.dx * g.dx *
                         Cardinality({m \in CoreNodes(g) :
                                         n \in Downstream(r, m, N)})]]

\* StreamPowerEroder.run_one_step(dt) with m_sp = 0.5, n_sp = 1: a core node
\* is lowered toward its receiver by a / (1 + a) of the drop between them,
\* a = K_sp * sqrt(A) * dt / (link length).
Erode(g, K, dt) ==
    LET cut(n) ==
            LET r   == g.rcvr[n]
                w   == IF RowOf(g, n) # RowOf(g, r) /\ ColOf(g, n) # ColOf(g, r)
                       THEN 1414 ELSE 1000
                num == K * ISqrt(g.area[n]) * dt
                den == 100 * g.dx * w
                gg  == Gcd(Abs(num), den)
            IN  IF r = n \/ g.z[n] <= g.z[r] THEN 0
                ELSE TruncDiv((g.z[n] - g.z[r]) * (num \div gg),
                              (den \div gg) + (num \div gg))
    IN  [g EXCEPT !.z =
            [n \in NodesOf(g) |->
                IF g.status[n] = "core" THEN g.z[n] - cut(n) ELSE g.z[n]]]

(***************************************************************************)
(* What the diagnostic cells compute.                                      *)
(***************************************************************************)

\* The column the cross-sections are taken along: column 2 of the course's
\* five, the middle one.
SectionCol(g) == g.cols \div 2

\* mg.node_vector_to_raster(z)[:, 2]: the elevations along that column, row
\* by row.
CrossSection(g) ==
    [r \in 1..g.rows |-> g.z[(r - 1) * g.cols + SectionCol(g) + 1]]

\* Not the program: the profile with uplift_rate / D for its factor, the 2
\* left out.
AnalyticProfileNoHalf(rows, dx, u, d) ==
    LET len == rows * dx - dx
    IN  [k \in 1..len |->
            TruncDiv(100 * u * (len * len - (2 * (k - 1) - len)
                                             * (2 * (k - 1) - len)),
                     4 * Abs(d)) * (IF d < 0 THEN -1 ELSE 1)]

\* Not the program: the profile with divide_loc = number_of_node_rows * dx
\* / 2, the - dx left out.
AnalyticProfileOffCentre(rows, dx, u, d) ==
    LET len == rows * dx - dx
        mid == rows * dx
    IN  [k \in 1..len |->
            TruncDiv(100 * u * (len * len - (2 * (k - 1) - mid)
                                             * (2 * (k - 1) - mid)),
                     4 * 2 * Abs(d)) * (IF d < 0 THEN -1 ELSE 1)]

\* The analytical profile of hillslope Code Block 5 at ys = np.arange(len), in
\* 1e-5 m: (uplift_rate / (2 * D)) * (half_width^2 - (ys - divide_loc)^2)
\* with len = number_of_node_rows * dx - dx and divide_loc = half_width =
\* len / 2, the squares taken of the doubled lengths; entry k is the value
\* at y = k - 1.
AnalyticProfile(rows, dx, u, d) ==
    LET len == rows * dx - dx
    IN  [k \in 1..len |->
            TruncDiv(100 * u * (len * len - (2 * (k - 1) - len)
                                             * (2 * (k - 1) - len)),
                     4 * 2 * Abs(d)) * (IF d < 0 THEN -1 ELSE 1)]

\* window_statistic.calculate_window_statistic(mg, z, np.ptp, radius,
\* calc_on_closed_nodes=False): at every node that is not closed the range of
\* the elevations of the nodes that are not closed and lie within the
\* radius; -1 stands for the NaN of a closed node.
WindowRelief(g, radius) ==
    LET near(n) == {m \in NodesOf(g) :
                       /\ g.status[m] # "closed"
                       /\ g.dx * g.dx *
                             ((RowOf(g, n) - RowOf(g, m))
                                * (RowOf(g, n) - RowOf(g, m))
                              + (ColOf(g, n) - ColOf(g, m))
                                * (ColOf(g, n) - ColOf(g, m)))
                          <= radius * radius}
        hi(S) == CHOOSE a \in S : \A b \in S : g.z[a] >= g.z[b]
        lo(S) == CHOOSE a \in S : \A b \in S : g.z[a] <= g.z[b]
    IN  [n \in NodesOf(g) |->
            IF g.status[n] = "closed" THEN -1
            ELSE g.z[hi(near(n))] - g.z[lo(near(n))]]

\* The node of the set S with the largest drainage area, the lowest id among
\* equals.
LargestArea(g, S) ==
    CHOOSE a \in S :
        \A b \in S : \/ g.area[a] > g.area[b]
                      \/ (g.area[a] = g.area[b] /\ a <= b)

RECURSIVE ChannelUp(_, _, _, _)
\* The channel from node n upstream: at every node the donor with the
\* largest drainage area, as long as it drains at least thr; at most k
\* nodes further.
ChannelUp(g, n, thr, k) ==
    LET donors == {m \in NodesOf(g) :
                      m # n /\ g.rcvr[m] = n /\ g.area[m] >= thr}
    IN  IF k = 0 \/ donors = {} THEN << n >>
        ELSE << n >> \o ChannelUp(g, LargestArea(g, donors), thr, k - 1)

\* ChannelProfiler(mg1, number_of_watersheds=1, main_channel_only=True,
\* minimum_channel_threshold=dxy**2).run_one_step(): the main channel of the
\* watershed whose outlet, a boundary node, drains the largest area.
MainChannel(g) ==
    ChannelUp(g, LargestArea(g, {n \in NodesOf(g) : g.status[n] = "open"}),
              g.dx * g.dx, g.rows * g.cols)

\* SteepnessFinder.calculate_steepnesses() with reference_concavity = 0.5:
\* slope * sqrt(area) where the drainage area reaches min_drainage_area.
Steepness(g) ==
    [n \in NodesOf(g) |->
        IF g.area[n] >= MinDrainageArea
        THEN g.slope[n] * ISqrt(g.area[n]) ELSE 0]

(***************************************************************************)
(* numpy's global random generator: np.random.seed(s) sets its state and   *)
(* np.random.rand(k) draws k values, moving the state on.  The generator   *)
(* has full period, so the values of one draw differ from each other.      *)
(***************************************************************************)
RngStates == 0..(NoiseRange - 1)

RngNext(s) == (21 * s + 7) % NoiseRange

RECURSIVE RandSeq(_, _)
\* The k values drawn from state s; the last one is the state left behind.
RandSeq(s, k) ==
    IF k = 0 THEN << >> ELSE << RngNext(s) >> \o RandSeq(RngNext(s), k - 1)

\* Not the program: the draws of np.random.rand taken as they are, not
\* divided by 1000.
NoiseWhole(s, k) == [x \in 1..k |-> 1000 * RandSeq(s, k)[x]]

\* mg1_noise = np.random.rand(mg1.number_of_nodes) / 1000.0, in 1e-5 m.
Noise(s, k) == RandSeq(s, k)

(***************************************************************************)
(* The kernel.                                                             *)
(***************************************************************************)
VARIABLES
    nb,           \* the notebook this kernel runs
    heap,         \* the grid objects, by object id
    mg,           \* mg / mg1: the id of the grid it names, 0 when unbound
    zp,           \* z1: the id of the grid whose elevation array it names
    cp,           \* the id of the grid the components were constructed on
    diff,         \* the diffuser: its kind, its diffusivity, its deposit flag
    Ksp,          \* the eroder's K_sp
    D,            \* the name D
    uplift_rate,  \* the name uplift_rate
    runtime,      \* runtime (hillslope) / tmax (channels)
    dt,           \* the name dt
    nt,           \* nt (hillslope) / len(t) (channels)
    clock,        \* time_counter (hillslope) / total_time (channels)
    ups,          \* uplift_per_step (hillslope)
    bound,        \* the code blocks that have completed, whose names are bound
    rng,          \* the state of numpy's global random generator
    pc,           \* the statement of the loop cell to run next, or "idle"
    i,            \* the iterations of the running loop that are complete
    n,            \* the length of the sequence the running loop iterates over
    iters,        \* loop iterations started so far (bounds the model)
    edits,        \* cells run so far with values other than the course's
    made,         \* grids constructed so far
    start,        \* history: the heap and the clock when the loop cell started
    chain,        \* history: the start of the loop cell's run just before
    pre,          \* history: the heap before the loop statement run last
    done,         \* history: the statements run in the current iteration
    fresh,        \* history: the loop cell ended and no cell has run since
    ref,          \* history: the first run of the loop cell in this kernel
    noises,       \* history: the noise fields Code Block 3 has drawn
    ticks,        \* history: clock statements since Code Block 4 completed
    zs,           \* hillslope Code Block 5: the analytical profile
    shown,        \* what the cell run last has displayed
    fails,        \* statements of the loop cell that have failed so far
    iter0,        \* history: the heap when the current iteration began
    dtD,          \* history: the D that Code Block 4 computed dt from
    failed        \* history: the last run of the loop cell ended in an error

prog == << nb, heap, mg, zp, cp, diff, Ksp, D, uplift_rate, runtime, dt, nt,
           clock, ups, bound, rng, pc, i, n, zs, shown >>

budget == << iters, edits, made, fails >>

hist == << start, chain, pre, done, fresh, ref, noises, ticks, iter0, dtD,
           failed >>

vars == << prog, budget, hist >>

ObjIds == {1, 2, 3}

NoHeap == [id \in ObjIds |-> FreeGrid]

\* The lowest object id that none of the names in keep refers to.
NewId(keep) ==
    CHOOSE id \in ObjIds \ keep : \A j \in ObjIds \ keep : id <= j

\* The heap h and the names m (mg), z (z1), c (the components' grid) with
\* the objects no name refers to dropped and the others numbered in the
\* order mg, z1, components: object ids carry no meaning in the program.
Canon(h, m, z, c) ==
    LET m1 == IF m = 0 THEN 0 ELSE 1
        z1 == IF z = 0 THEN 0 ELSE IF z = m THEN m1 ELSE m1 + 1
        c1 == IF c = 0 THEN 0
              ELSE IF c = m THEN m1
              ELSE IF c = z THEN z1 ELSE Max2(m1, z1) + 1
    IN  [mg |-> m1, zp |-> z1, cp |-> c1,
         heap |-> [id \in ObjIds |->
                      IF m # 0 /\ id = m1 THEN h[m]
                      ELSE IF z # 0 /\ id = z1 THEN h[z]
                      ELSE IF c # 0 /\ id = c1 THEN h[c]
                      ELSE FreeGrid]]

\* The names and the heap become those of the record r.
Rebind(r) == heap' = r.heap /\ mg' = r.mg /\ zp' = r.zp /\ cp' = r.cp

NoDiffuser == [kind |-> "none", D |-> 0, deposit |-> TRUE]

NoSnap == [on |-> FALSE, heap |-> NoHeap, clock |-> 0]

NoRef == [on |-> FALSE, rec |-> FALSE, key |-> << >>, after |-> << >>]

\* A cell runs with the values typed into it; changed says they are not the
\* course's values.
Typed(changed) ==
    /\ edits' = edits + (IF changed THEN 1 ELSE 0)
    /\ edits' <= MaxEdits

\* Nothing displayed.
NoShow == [cell |-> "none", data |-> << >>]

\* A cell other than the loop cell ran and displayed out: the record of the
\* last loop is void.
CellShowed(out) ==
    /\ start' = NoSnap /\ chain' = NoSnap /\ pre' = NoHeap
    /\ done' = << >> /\ fresh' = FALSE
    /\ iter0' = NoHeap /\ failed' = FALSE
    /\ shown' = out
    /\ UNCHANGED ref

\* A cell that displays nothing ran.
CellRan == CellShowed(NoShow)

\* A kernel just started, e of the values typed so far not the course's.
Started(e) ==
    /\ nb \in Notebooks
    /\ heap = NoHeap
    /\ mg = 0 /\ zp = 0 /\ cp = 0
    /\ diff = NoDiffuser
    /\ Ksp = 0 /\ D = 0 /\ uplift_rate = 0 /\ runtime = 0
    /\ dt = 0 /\ nt = 0 /\ clock = 0 /\ ups = 0
    /\ bound = {}
    /\ rng \in (IF nb = "chan" THEN {1, 2} ELSE {1})
    /\ pc = "idle" /\ i = 0 /\ n = 0
    /\ iters = 0 /\ edits = e /\ made = 0
    /\ start = NoSnap /\ chain = NoSnap /\ pre = NoHeap
    /\ done = << >> /\ fresh = FALSE
    /\ ref = NoRef
    /\ noises = {}
    /\ ticks = 0
    /\ zs = NoField
    /\ shown = NoShow
    /\ fails = 0
    /\ iter0 = NoHeap
    /\ dtD = 0
    /\ failed = FALSE

Init == Started(0)

(***************************************************************************)
(* The hillslope notebooks' cells.  A cell is modelled once the names it   *)
(* reads are bound (otherwise it stops with a NameError).                  *)
(***************************************************************************)

\* Code Block 2: a new grid with a zero elevation field, closed on its two
\* long sides.
HillBlock2 ==
    /\ nb \in Hillslope /\ pc = "idle"
    /\ made < MaxGrids /\ made' = made + 1
    /\ LET id == NewId({zp, cp} \ {0})
           g  == SetClosedBoundariesAtGridEdges(
                     AddZeros(RasterModelGrid(HillRows, HillCols, HillDx)),
                     TRUE, FALSE, TRUE, FALSE)
       IN  Rebind(Canon([heap EXCEPT ![id] = g], id, zp, cp))
    /\ bound' = bound \cup {"B2"}
    /\ CellRan
    /\ UNCHANGED << nb, diff, Ksp, D, uplift_rate, runtime, dt, nt, clock,
                    ups, rng, pc, i, n, iters, edits, noises, ticks,
                    zs, dtD, fails >>

\* Not the program: Code Block 3 deriving dt, nt and uplift_per_step anew
\* from the D it assigns.
HillBlock3Rederiving(d) ==
    /\ nb \in Hillslope /\ pc = "idle"
    /\ "B2" \in bound
    /\ D' = d
    /\ diff' = [kind |-> IF nb = "nonlin" THEN "taylor" ELSE "linear",
                D |-> d, deposit |-> TRUE]
    /\ Rebind(Canon(heap, mg, zp, mg))
    /\ bound' = bound \cup {"B3"}
    /\ IF d > 0 /\ "B4" \in bound
       THEN /\ dt' = (50 * heap[mg].dx * heap[mg].dx) \div d
            /\ nt' = runtime \div dt'
            /\ ups' = uplift_rate * dt'
       ELSE UNCHANGED << dt, nt, ups >>
    /\ Typed(d # HillD0)
    /\ CellRan
    /\ UNCHANGED << nb, Ksp, uplift_rate, runtime, clock, rng,
                    pc, i, n, iters, made, noises, ticks,
                    zs, dtD, fails >>

\* Code Block 3: D, and a diffuser constructed on the grid mg names now.
\* Whether the component's constructor takes a negative diffusivity or
\* raises is the library's affair: either may happen, and if it raises the
\* name D is assigned and the diffuser is the one there was.
HillBlock3(d) ==
    /\ nb \in Hillslope /\ pc = "idle"
    /\ "B2" \in bound
    /\ D' = d
    /\ \E taken \in (IF d < 0 THEN BOOLEAN ELSE {TRUE}) :
          IF taken
          THEN /\ diff' = [kind |-> IF nb = "nonlin" THEN "taylor"
                                    ELSE "linear",
                           D |-> d, deposit |-> TRUE]
               /\ Rebind(Canon(heap, mg, zp, mg))
               /\ bound' = bound \cup {"B3"}
          ELSE UNCHANGED << diff, heap, mg, zp, cp, bound >>
    /\ Typed(d # HillD0)
    /\ CellRan
    /\ UNCHANGED << nb, Ksp, uplift_rate, runtime, dt, nt, clock, ups, rng,
                    pc, i, n, iters, made, noises, ticks,
                    zs, dtD, fails >>

\* The name D is bound: Code Block 3 has assigned it.
DBound == D # 0 \/ "B3" \in bound

\* Not the program: dt = mg.dx * mg.dx / D, the factor 0.5 left out.
StabilityDtWhole(dx, d) ==
    TruncDiv(100 * dx * dx, Abs(d)) * (IF d < 0 THEN -1 ELSE 1)

\* dt = 0.5 * mg.dx * mg.dx / D, with D in 0.01 m^2/yr.
StabilityDt(dx, d) == TruncDiv(50 * dx * dx, Abs(d)) * (IF d < 0 THEN -1 ELSE 1)

\* Not the program: the quotient rounded up, a last and shorter step counted
\* as a whole one.
FloorDivUp(a, b) == IF b > 0 THEN -((-a) \div b) ELSE -(a \div (-b))

\* int(runtime // dt): the floor of the quotient.
FloorDiv(a, b) == IF b > 0 THEN a \div b ELSE (-a) \div (-b)

\* Code Block 4: the run's parameters.  With D = 0 the cell stops at the
\* division, after uplift_rate and runtime are assigned.
HillBlock4(u, r) ==
    /\ nb \in Hillslope /\ pc = "idle"
    /\ "B2" \in bound /\ DBound
    /\ uplift_rate' = u
    /\ runtime' = r
    /\ IF D = 0
       THEN UNCHANGED << dt, nt, clock, ups, bound, ticks, dtD >>
       ELSE /\ dt' = StabilityDt(heap[mg].dx, D)
            /\ dtD' = D
            /\ nt' = FloorDiv(r, dt')
            /\ clock' = 0
            /\ ups' = u * dt'
            /\ bound' = bound \cup {"B4"}
            /\ ticks' = 0
    /\ Typed(u # Uplift0 \/ r # HillRuntime0)
    /\ CellRan
    /\ UNCHANGED << nb, heap, mg, zp, cp, diff, Ksp, D, rng, pc, i, n, iters,
                    made, noises,
                    zs, fails >>

\* Code Block 5: the analytical steady-state profile.  With D = 0 the cell
\* stops at the division and zs is not assigned.
HillBlock5 ==
    /\ nb \in Hillslope /\ pc = "idle"
    /\ "B2" \in bound /\ DBound /\ uplift_rate # 0
    /\ IF D = 0
       THEN UNCHANGED << zs, bound >>
       ELSE /\ zs' = AnalyticProfile(heap[mg].rows, heap[mg].dx,
                                     uplift_rate, D)
            /\ bound' = bound \cup {"B5"}
    /\ CellRan
    /\ UNCHANGED << nb, heap, mg, zp, cp, diff, Ksp, D, uplift_rate, runtime,
                    dt, nt, clock, ups, rng, pc, i, n, budget, noises, ticks,
                    dtD >>

\* The cross-section plot of the loop cell and of Code Block 8: the model's
\* elevations along the section, the analytical profile, the clock.
SectionPlot(cell) ==
    [cell |-> cell, data |-> << CrossSection(heap[mg]), zs, clock, D >>]

\* Code Block 8: the cross-section after the run.
HillBlock8 ==
    /\ nb \in Hillslope /\ pc = "idle"
    /\ {"B2", "B4", "B5"} \subseteq bound
    /\ CellShowed(SectionPlot("B8"))
    /\ UNCHANGED << nb, heap, mg, zp, cp, diff, Ksp, D, uplift_rate, runtime,
                    dt, nt, clock, ups, bound, rng, pc, i, n, budget, noises,
                    ticks, zs, dtD >>

\* Not the program: Code Block 9 calling the diffuser's run_one_step(dt), not
\* the flow accumulator's.
HillBlock9Diffusing ==
    /\ nb \in Hillslope /\ pc = "idle"
    /\ {"B2", "B3", "B4"} \subseteq bound
    /\ LET h == [heap EXCEPT ![cp] = Diffuse(@, diff, dt)]
       IN  /\ Rebind(Canon(h, mg, zp, cp))
           /\ CellShowed([cell |-> "B9",
                          data |-> [x \in CoreNodes(h[mg]) |-> 0]])
    /\ UNCHANGED << nb, diff, Ksp, D, uplift_rate, runtime, dt, nt, clock,
                    ups, bound, rng, pc, i, n, budget, noises, ticks, zs,
                    dtD >>

\* Code Block 9: a FlowAccumulator constructed on mg (its flow director the
\* default, without diagonals) and run: the slopes of the core nodes are
\* plotted.
HillBlock9 ==
    /\ nb \in Hillslope /\ pc = "idle"
    /\ {"B2", "B4"} \subseteq bound /\ DBound
    /\ LET g == Route(heap[mg], FALSE)
       IN  /\ Rebind(Canon([heap EXCEPT ![mg] = g], mg, zp, cp))
           /\ CellShowed([cell |-> "B9",
                          data |-> [x \in CoreNodes(g) |-> g.slope[x]]])
    /\ UNCHANGED << nb, diff, Ksp, D, uplift_rate, runtime, dt, nt, clock,
                    ups, bound, rng, pc, i, n, budget, noises, ticks, zs,
                    dtD >>

\* Code Block 10: the map of local relief; the nonlinear notebook's cell
\* plots it along the hillslope too, under a title with the clock and D.
HillBlock10 ==
    /\ nb \in Hillslope /\ pc = "idle"
    /\ "B2" \in bound
    /\ nb = "nonlin" => ("B4" \in bound /\ DBound)
    /\ CellShowed([cell |-> "B10",
                   data |-> WindowRelief(heap[mg], SearchRadius)])
    /\ UNCHANGED << nb, heap, mg, zp, cp, diff, Ksp, D, uplift_rate, runtime,
                    dt, nt, clock, ups, bound, rng, pc, i, n, budget, noises,
                    ticks, zs, dtD >>

(***************************************************************************)
(* The channels notebook's cells.                                          *)
(***************************************************************************)

\* Code Block 2: a new grid, which holds no field yet.
ChanBlock2 ==
    /\ nb = "chan" /\ pc = "idle"
    /\ made < MaxGrids /\ made' = made + 1
    /\ LET id == NewId({zp, cp} \ {0})
           g  == RasterModelGrid(ChanRows, ChanCols, ChanDx)
       IN  Rebind(Canon([heap EXCEPT ![id] = g], id, zp, cp))
    /\ bound' = bound \cup {"B2"}
    /\ CellRan
    /\ UNCHANGED << nb, diff, Ksp, D, uplift_rate, runtime, dt, nt, clock,
                    ups, rng, pc, i, n, iters, edits, noises, ticks,
                    zs, dtD, fails >>

\* Not the program: Code Block 3 without np.random.seed(56), the noise drawn
\* from the generator's state as it is.
ChanBlock3Unseeded ==
    /\ nb = "chan" /\ pc = "idle"
    /\ "B2" \in bound
    /\ heap[mg].z = NoField
    /\ LET N     == heap[mg].rows * heap[mg].cols
           noise == Noise(rng, N)
           g     == [AddZeros(heap[mg]) EXCEPT
                        !.z = [x \in 1..N |-> 0 + noise[x]]]
       IN  /\ rng' = noise[N]
           /\ noises' = noises \cup {noise}
           /\ Rebind(Canon([heap EXCEPT
                               ![mg] = SetWatershedBoundaryCondition(g)],
                           mg, mg, cp))
    /\ bound' = bound \cup {"B3"}
    /\ CellRan
    /\ UNCHANGED << nb, diff, Ksp, D, uplift_rate, runtime, dt, nt, clock,
                    ups, pc, i, n, iters, edits, made, ticks,
                    zs, dtD, fails >>

\* Code Block 3: the seeded noise becomes the elevation field of mg1, z1 names
\* that array, and the boundary conditions are set from it.  add_zeros needs
\* a grid that has no elevation field yet.
ChanBlock3 ==
    /\ nb = "chan" /\ pc = "idle"
    /\ "B2" \in bound
    /\ heap[mg].z = NoField
    /\ LET N     == heap[mg].rows * heap[mg].cols
           noise == Noise(Seed % NoiseRange, N)
           g     == [AddZeros(heap[mg]) EXCEPT
                        !.z = [x \in 1..N |-> 0 + noise[x]]]
       IN  /\ rng' = noise[N]
           /\ noises' = noises \cup {noise}
           /\ Rebind(Canon([heap EXCEPT
                               ![mg] = SetWatershedBoundaryCondition(g)],
                           mg, mg, cp))
    /\ bound' = bound \cup {"B3"}
    /\ CellRan
    /\ UNCHANGED << nb, diff, Ksp, D, uplift_rate, runtime, dt, nt, clock,
                    ups, pc, i, n, iters, edits, made, ticks,
                    zs, dtD, fails >>

\* Not the program: the end point counted in, as np.linspace would.
ArangeLenInclusive(tmax, step) ==
    IF tmax <= 0 THEN 0 ELSE (tmax \div step) + 1

\* Not the program: the whole steps that fit into tmax, as int(tmax // dt).
ArangeLenFloor(tmax, step) == IF tmax <= 0 THEN 0 ELSE tmax \div step

\* len(np.arange(0, tmax, dt)) for dt > 0.
ArangeLen(tmax, step) == IF tmax <= 0 THEN 0 ELSE (tmax + step - 1) \div step

\* Not the program: Code Block 4 without total_time = 0.
ChanBlock4KeepsClock(tm) ==
    /\ nb = "chan" /\ pc = "idle"
    /\ runtime' = tm
    /\ dt' = ChanDt
    /\ nt' = ArangeLen(tm, ChanDt)
    /\ bound' = bound \cup {"B4"}
    /\ ticks' = 0
    /\ Typed(tm # Tmax0)
    /\ CellRan
    /\ UNCHANGED << nb, heap, mg, zp, cp, diff, Ksp, D, uplift_rate, ups, rng,
                    pc, i, n, iters, made, noises, clock,
                    zs, dtD, fails >>

\* Code Block 4: the time parameters.
ChanBlock4(tm) ==
    /\ nb = "chan" /\ pc = "idle"
    /\ runtime' = tm
    /\ dt' = ChanDt
    /\ clock' = 0
    /\ nt' = ArangeLen(tm, ChanDt)
    /\ bound' = bound \cup {"B4"}
    /\ ticks' = 0
    /\ Typed(tm # Tmax0)
    /\ CellRan
    /\ UNCHANGED << nb, heap, mg, zp, cp, diff, Ksp, D, uplift_rate, ups, rng,
                    pc, i, n, iters, made, noises,
                    zs, dtD, fails >>

\* FlowAccumulator(mg1, ...): the flow fields of the grid exist from then on.
WithFlowFields(g) ==
    IF g.rcvr # NoField THEN g
    ELSE [g EXCEPT !.rcvr = [x \in NodesOf(g) |-> x],
                   !.slope = [x \in NodesOf(g) |-> 0],
                   !.area = [x \in NodesOf(g) |-> 0]]

\* Code Block 5: K_sp, D and the components, constructed on the grid mg1
\* names now, which must hold an elevation field.
ChanBlock5(k, d) ==
    /\ nb = "chan" /\ pc = "idle"
    /\ "B2" \in bound
    /\ heap[mg].z # NoField
    /\ Ksp' = k
    /\ D' = d
    /\ diff' = [kind |-> "linear", D |-> d, deposit |-> FALSE]
    /\ Rebind(Canon([heap EXCEPT ![mg] = WithFlowFields(@)], mg, zp, mg))
    /\ bound' = bound \cup {"B5"}
    /\ Typed(k # Ksp0 \/ d # ChanD0)
    /\ CellRan
    /\ UNCHANGED << nb, uplift_rate, runtime, dt, nt, clock, ups, rng, pc, i,
                    n, iters, made, noises, ticks,
                    zs, dtD, fails >>

\* Code Block 6: the uplift rate, the same at every node.
ChanBlock6(u) ==
    /\ nb = "chan" /\ pc = "idle"
    /\ "B2" \in bound
    /\ uplift_rate' = u
    /\ bound' = bound \cup {"B6"}
    /\ Typed(u # Uplift0)
    /\ CellRan
    /\ UNCHANGED << nb, heap, mg, zp, cp, diff, Ksp, D, runtime, dt, nt, clock,
                    ups, rng, pc, i, n, iters, made, noises, ticks,
                    zs, dtD, fails >>

\* Code Block 8.5: the map of the steepest slope field of mg1 as it is, and
\* its mean over the core nodes.
ChanBlock85 ==
    /\ nb = "chan" /\ pc = "idle"
    /\ {"B2", "B4", "B5"} \subseteq bound
    /\ heap[mg].slope # NoField
    /\ CellShowed([cell |-> "B8.5",
                   data |-> << heap[mg].slope,
                               SumOver(heap[mg].slope, CoreNodes(heap[mg]))
                                  \div Cardinality(CoreNodes(heap[mg])) >>])
    /\ UNCHANGED << nb, heap, mg, zp, cp, diff, Ksp, D, uplift_rate, runtime,
                    dt, nt, clock, ups, bound, rng, pc, i, n, budget, noises,
                    ticks, zs, dtD >>

\* Code Block 10: a ChannelProfiler constructed on mg1 and run; the profile
\* of the main channel is plotted.
ChanBlock10 ==
    /\ nb = "chan" /\ pc = "idle"
    /\ {"B2", "B4", "B5"} \subseteq bound
    /\ heap[mg].rcvr # NoField
    /\ bound' = bound \cup {"B10"}
    /\ CellShowed([cell |-> "B10", data |-> MainChannel(heap[mg])])
    /\ UNCHANGED << nb, heap, mg, zp, cp, diff, Ksp, D, uplift_rate, runtime,
                    dt, nt, clock, ups, rng, pc, i, n, budget, noises, ticks,
                    zs, dtD >>

\* Code Block 12: the SteepnessFinder of Code Block 5 computes the channel
\* steepness on its grid, plotted along the channels profiled in Code
\* Block 10.  The steepness field is read by this cell's plots only and is
\* kept as what the cell displays.
ChanBlock12 ==
    /\ nb = "chan" /\ pc = "idle"
    /\ {"B5", "B10"} \subseteq bound
    /\ CellShowed([cell |-> "B12", data |-> Steepness(heap[cp])])
    /\ UNCHANGED << nb, heap, mg, zp, cp, diff, Ksp, D, uplift_rate, runtime,
                    dt, nt, clock, ups, bound, rng, pc, i, n, budget, noises,
                    ticks, zs, dtD >>

(***************************************************************************)
(* Code Block 7, the loop cell, statement by statement.                    *)
(***************************************************************************)

\* The names the loop cell reads are bound; the hillslope loop reads those
\* of Code Block 5 in its plot branch, which a loop of no iteration does
\* not reach.
LoopReady ==
    IF nb \in Hillslope
    THEN /\ {"B2", "B3", "B4"} \subseteq bound
         /\ nt > 0 => "B5" \in bound
    ELSE {"B2", "B3", "B4", "B5", "B6"} \subseteq bound

\* The statements of one iteration, in the order of the cell.
Body(book) ==
    IF book \in Hillslope
    THEN << "uplift", "diffuse", "clock" >>
    ELSE << "uplift", "diffuse", "route", "erode", "clock" >>

\* Not the program: the channels loop with the eroder run before the flow
\* router.
NextPcErodeFirst(book, s) ==
    LET b == IF book \in Hillslope
             THEN << "uplift", "diffuse", "clock" >>
             ELSE << "uplift", "diffuse", "erode", "route", "clock" >>
        j == CHOOSE x \in 1..Len(b) : b[x] = s
    IN  b[j + 1]

\* Not the program: the next iteration's uplift started from the last
\* process statement, the clock statement of the iteration not awaited.
NextPcSkipClock(book, s) ==
    LET b == IF book \in Hillslope
             THEN << "uplift", "diffuse", "clock" >>
             ELSE << "uplift", "diffuse", "route", "erode", "clock" >>
        j == CHOOSE x \in 1..Len(b) : b[x] = s
    IN  IF j + 1 = Len(b) THEN "uplift" ELSE b[j + 1]

\* The statement that follows statement s of the loop body.
NextPc(book, s) ==
    LET b == Body(book)
        j == CHOOSE x \in 1..Len(b) : b[x] = s
    IN  b[j + 1]

\* Not the program: the uplift added at every node, z += inc.
UpliftEveryNode(z, cores, inc) == [x \in DOMAIN z |-> z[x] + inc]

\* The elevation array z with inc added at the nodes in cores.
UpliftField(z, cores, inc) ==
    [x \in DOMAIN z |-> IF x \in cores THEN z[x] + inc ELSE z[x]]

\* The grid whose elevation array the uplift statement writes:
\* mg["node"]["topographic__elevation"] (hillslope), z1 (channels).
UpliftTarget == IF nb \in Hillslope THEN mg ELSE zp

\* Not the program: the uplift rate added as it is, not times dt.
UpliftRateAlone == uplift_rate

\* Not the program: the increment computed with a step of 1000 years,
\* whatever dt is.
UpliftIncrementFixedStep == uplift_rate * 1000

\* The increment of the uplift statement: uplift_per_step (hillslope),
\* uplift_rate[mg1.core_nodes] * dt (channels).
UpliftIncrement == IF nb \in Hillslope THEN ups ELSE uplift_rate * dt

\* The heap after the uplift statement: the core nodes are those of the grid
\* mg names.
AfterUplift(h) ==
    [h EXCEPT ![UpliftTarget].z =
                  UpliftField(@, CoreNodes(h[mg]), UpliftIncrement),
              ![UpliftTarget].age = @ + 1]

\* Not the program: a diffuser that works where the flow routing found a
\* slope, and leaves the other nodes alone.
AfterDiffuseOnSlopes(h) ==
    LET g == h[cp]
        d == Diffuse(g, diff, dt)
    IN  [h EXCEPT ![cp].z =
            [x \in NodesOf(g) |->
                IF g.slope # NoField /\ g.slope[x] > 0
                THEN d.z[x] ELSE g.z[x]]]

\* The heap after nonlin_diffuse / lin_diffuse / ld .run_one_step(dt).
AfterDiffuse(h) == [h EXCEPT ![cp] = Diffuse(@, diff, dt)]

\* The heap after frr.run_one_step(), a FlowAccumulator with
\* flow_director='FlowDirectorD8'.
AfterRoute(h) == [h EXCEPT ![cp] = Route(@, TRUE)]

\* Not the program: an eroder that routes the flow anew over what it has
\* cut.
AfterErodeRerouted(h) == [h EXCEPT ![cp] = Route(Erode(@, Ksp, dt), TRUE)]

\* The heap after spr.run_one_step(dt).
AfterErode(h) == [h EXCEPT ![cp] = Erode(@, Ksp, dt)]

\* The heap after the statements of one iteration.
OneIteration(h) ==
    IF nb \in Hillslope
    THEN AfterDiffuse(AfterUplift(h))
    ELSE AfterErode(AfterRoute(AfterDiffuse(AfterUplift(h))))

RECURSIVE Iterated(_, _)
\* The heap after k iterations.
Iterated(h, k) == IF k = 0 THEN h ELSE OneIteration(Iterated(h, k - 1))

\* What a run of the loop cell reads: the heap h and the clock c it starts
\* from, its iteration count, and the names its statements use.
RunKey(h, c, cnt) ==
    [heap |-> h, clock |-> c, n |-> cnt, nb |-> nb, mg |-> mg, zp |-> zp,
     cp |-> cp, diff |-> diff, Ksp |-> Ksp, dt |-> dt,
     inc |-> UpliftIncrement]

\* Not the program: a loop cell that sets the clock to zero before the loop.
LoopStartFromZero ==
    /\ pc = "idle"
    /\ LoopReady
    /\ iters + Max2(nt, 0) <= MaxIters
    /\ n' = Max2(nt, 0)
    /\ i' = 0
    /\ pc' = IF n' = 0 THEN "idle" ELSE "uplift"
    /\ clock' = 0
    /\ start' = [on |-> TRUE, heap |-> heap, clock |-> clock]
    /\ chain' = IF fresh THEN start ELSE NoSnap
    /\ pre' = NoHeap
    /\ done' = << >>
    /\ fresh' = (n' = 0)
    /\ iter0' = NoHeap /\ failed' = FALSE /\ shown' = NoShow
    /\ ref' = IF ref.on THEN ref
              ELSE [on |-> TRUE, rec |-> n' > 0,
                    key |-> RunKey(heap, clock, n'), after |-> << >>]
    /\ UNCHANGED << nb, heap, mg, zp, cp, diff, Ksp, D, uplift_rate, runtime,
                    dt, nt, ups, bound, rng, budget, noises, ticks,
                    zs, dtD >>

\* for i in range(nt): / for ti in t: the sequence is evaluated once, here.
LoopStart ==
    /\ pc = "idle"
    /\ LoopReady
    /\ iters + Max2(nt, 0) <= MaxIters
    /\ n' = Max2(nt, 0)
    /\ i' = 0
    /\ pc' = IF n' = 0 THEN "idle" ELSE "uplift"
    /\ start' = [on |-> TRUE, heap |-> heap, clock |-> clock]
    /\ chain' = IF fresh THEN start ELSE NoSnap
    /\ pre' = NoHeap
    /\ done' = << >>
    /\ fresh' = (n' = 0)
    /\ iter0' = NoHeap /\ failed' = FALSE /\ shown' = NoShow
    /\ ref' = IF ref.on THEN ref
              ELSE [on |-> TRUE, rec |-> n' > 0,
                    key |-> RunKey(heap, clock, n'), after |-> << >>]
    /\ UNCHANGED << nb, heap, mg, zp, cp, diff, Ksp, D, uplift_rate, runtime,
                    dt, nt, clock, ups, bound, rng, budget, noises, ticks,
                    zs, dtD >>

\* A statement of the loop body ran.
StatementRan(s) ==
    /\ pre' = heap
    /\ done' = IF s = Body(nb)[1] THEN << s >> ELSE Append(done, s)
    /\ UNCHANGED << start, chain, noises >>

Uplift ==
    /\ pc = "uplift"
    /\ heap' = AfterUplift(heap)
    /\ pc' = NextPc(nb, "uplift")
    /\ iters' = iters + 1
    /\ iter0' = heap
    /\ StatementRan("uplift")
    /\ UNCHANGED << nb, mg, zp, cp, diff, Ksp, D, uplift_rate, runtime, dt, nt,
                    clock, ups, bound, rng, i, n, edits, made, fresh, ref,
                    ticks,
                    zs, shown, dtD, failed, fails >>

DiffuseStep ==
    /\ pc = "diffuse"
    /\ heap' = AfterDiffuse(heap)
    /\ pc' = NextPc(nb, "diffuse")
    /\ StatementRan("diffuse")
    /\ UNCHANGED << nb, mg, zp, cp, diff, Ksp, D, uplift_rate, runtime, dt, nt,
                    clock, ups, bound, rng, i, n, budget, fresh, ref, ticks,
                    zs, shown, iter0, dtD, failed >>

RouteStep ==
    /\ pc = "route"
    /\ heap' = AfterRoute(heap)
    /\ pc' = NextPc(nb, "route")
    /\ StatementRan("route")
    /\ UNCHANGED << nb, mg, zp, cp, diff, Ksp, D, uplift_rate, runtime, dt, nt,
                    clock, ups, bound, rng, i, n, budget, fresh, ref, ticks,
                    zs, shown, iter0, dtD, failed >>

ErodeStep ==
    /\ pc = "erode"
    /\ heap' = AfterErode(heap)
    /\ pc' = NextPc(nb, "erode")
    /\ StatementRan("erode")
    /\ UNCHANGED << nb, mg, zp, cp, diff, Ksp, D, uplift_rate, runtime, dt, nt,
                    clock, ups, bound, rng, i, n, budget, fresh, ref, ticks,
                    zs, shown, iter0, dtD, failed >>

\* Not the program: the iterations counted from one, the plot in the
\* iteration whose number is nt // 2.
PlotDueOneBased == nb \in Hillslope /\ i + 1 = FloorDiv(nt, 2)

\* if i == int(nt // 2): the hillslope loops plot once, in the iteration in
\* the middle of the run, after the clock statement.
PlotDue == nb \in Hillslope /\ i = FloorDiv(nt, 2)

\* Where the loop cell stands after the clock statement of iteration i.
AfterClock ==
    IF PlotDue THEN "plot" ELSE IF i + 1 = n THEN "idle" ELSE "uplift"

\* Not the program: the clock computed from the loop index, (i + 1) * dt.
ClockStepFromIndex ==
    /\ pc = "clock"
    /\ clock' = (i + 1) * dt
    /\ i' = i + 1
    /\ pc' = AfterClock
    /\ ticks' = ticks + 1
    /\ fresh' = (AfterClock = "idle")
    /\ ref' = IF ref.rec
              THEN [ref EXCEPT
                       !.after = Append(@, [heap |-> heap, clock |-> clock']),
                       !.rec = (i + 1 # n)]
              ELSE ref
    /\ pre' = heap
    /\ done' = Append(done, "clock")
    /\ UNCHANGED << nb, heap, mg, zp, cp, diff, Ksp, D, uplift_rate, runtime,
                    dt, nt, ups, bound, rng, n, budget, start, chain, noises,
                    zs, shown, iter0, dtD, failed >>

\* time_counter += dt / total_time += dt, and the loop goes on or ends.
ClockStep ==
    /\ pc = "clock"
    /\ clock' = clock + dt
    /\ i' = i + 1
    /\ pc' = AfterClock
    /\ ticks' = ticks + 1
    /\ fresh' = (AfterClock = "idle")
    /\ ref' = IF ref.rec
              THEN [ref EXCEPT
                       !.after = Append(@, [heap |-> heap, clock |-> clock']),
                       !.rec = (i + 1 # n)]
              ELSE ref
    /\ StatementRan("clock")
    /\ UNCHANGED << nb, heap, mg, zp, cp, diff, Ksp, D, uplift_rate, runtime,
                    dt, nt, ups, bound, rng, n, budget,
                    zs, shown, iter0, dtD, failed >>

\* The plot branch of the hillslope loops: the cross-section so far, the
\* iteration counted already.
PlotStep ==
    /\ pc = "plot"
    /\ shown' = SectionPlot("B7")
    /\ pc' = IF i = n THEN "idle" ELSE "uplift"
    /\ fresh' = (i = n)
    /\ UNCHANGED << nb, heap, mg, zp, cp, diff, Ksp, D, uplift_rate, runtime,
                    dt, nt, clock, ups, bound, rng, i, n, zs, budget, start,
                    chain, pre, done, ref, noises, ticks, iter0, dtD,
                    failed >>

Next ==
    \/ HillBlock2
    \/ \E d \in HillDValues : HillBlock3(d)
    \/ \E u \in UpliftValues, r \in RuntimeValues : HillBlock4(u, r)
    \/ HillBlock5
    \/ ChanBlock2
    \/ ChanBlock3
    \/ \E tm \in TmaxValues : ChanBlock4(tm)
    \/ \E k \in KspValues, d \in ChanDValues : ChanBlock5(k, d)
    \/ \E u \in UpliftValues : ChanBlock6(u)
    \/ LoopStart
    \/ Uplift
    \/ DiffuseStep
    \/ RouteStep
    \/ ErodeStep
    \/ ClockStep
    \/ PlotStep

Spec == Init /\ [][Next]_vars

\* The cells that plot and analyse, run at any time between the others.
Diagnostic ==
    \/ HillBlock8
    \/ HillBlock9
    \/ HillBlock10
    \/ ChanBlock85
    \/ ChanBlock10
    \/ ChanBlock12

\* The notebook run with the course's values only.
AsGiven == Started(MaxEdits)

DiagNext == Next \/ Diagnostic

\* The notebooks as the course gives them, the diagnostic cells included.
DiagSpec == AsGiven /\ [][DiagNext]_vars

\* The heap after statement s of the loop body.
AfterStatement(s, h) ==
    CASE s = "diffuse" -> AfterDiffuse(h)
      [] s = "route"   -> AfterRoute(h)
      [] s = "erode"   -> AfterErode(h)
      [] OTHER         -> h

\* Not the program: the loop body in a try block whose handler passes, the
\* loop going on with the next statement.
StepFailsSwallowed ==
    /\ pc \in {"diffuse", "route", "erode"}
    /\ fails < MaxFails /\ fails' = fails + 1
    /\ \E wrote \in BOOLEAN :
          heap' = IF wrote THEN AfterStatement(pc, heap) ELSE heap
    /\ pc' = NextPc(nb, pc)
    /\ failed' = TRUE
    /\ UNCHANGED << nb, mg, zp, cp, diff, Ksp, D, uplift_rate, runtime, dt, nt,
                    clock, ups, bound, rng, i, n, zs, shown, iters, edits,
                    made, start, chain, pre, done, fresh, ref, noises, ticks,
                    iter0, dtD >>

\* A component's run_one_step raises: the exception leaves the loop and the
\* cell.  Whether the component had written to its grid before it raised is
\* the library's affair: either may be the case.
StepFails ==
    /\ pc \in {"diffuse", "route", "erode"}
    /\ fails < MaxFails /\ fails' = fails + 1
    /\ \E wrote \in BOOLEAN :
          heap' = IF wrote THEN AfterStatement(pc, heap) ELSE heap
    /\ pc' = "idle"
    /\ failed' = TRUE
    /\ UNCHANGED << nb, mg, zp, cp, diff, Ksp, D, uplift_rate, runtime, dt, nt,
                    clock, ups, bound, rng, i, n, zs, shown, iters, edits,
                    made, start, chain, pre, done, fresh, ref, noises, ticks,
                    iter0, dtD >>

FailNext == Next \/ StepFails

\* The notebooks as the course gives them, a component failing now and then.
FailSpec == AsGiven /\ [][FailNext]_vars

\* The linear-diffusion notebook after its Code Blocks 2 to 5 have run as
\* the course gives them, on the course's grid.
CourseReady ==
    /\ nb = "lin"
    /\ heap = [NoHeap EXCEPT ![1] =
                  SetClosedBoundariesAtGridEdges(
                      AddZeros(RasterModelGrid(CourseRows, CourseCols,
                                               HillDx)),
                      TRUE, FALSE, TRUE, FALSE)]
    /\ mg = 1 /\ zp = 0 /\ cp = 1
    /\ diff = [kind |-> "linear", D |-> HillD0, deposit |-> TRUE]
    /\ Ksp = 0 /\ D = HillD0
    /\ uplift_rate = Uplift0 /\ runtime = CourseRuntime
    /\ dt = StabilityDt(HillDx, HillD0)
    /\ nt = FloorDiv(CourseRuntime, StabilityDt(HillDx, HillD0))
    /\ clock = 0
    /\ ups = Uplift0 * StabilityDt(HillDx, HillD0)
    /\ bound = {"B2", "B3", "B4", "B5"}
    /\ rng = 1
    /\ pc = "idle" /\ i = 0 /\ n = 0
    /\ zs = AnalyticProfile(CourseRows, HillDx, Uplift0, HillD0)
    /\ shown = NoShow
    /\ iters = 0 /\ edits = 0 /\ made = 1 /\ fails = 0
    /\ start = NoSnap /\ chain = NoSnap /\ pre = NoHeap
    /\ done = << >> /\ fresh = FALSE
    /\ ref = NoRef
    /\ noises = {}
    /\ ticks = 0
    /\ iter0 = NoHeap
    /\ dtD = HillD0
    /\ failed = FALSE

\* One iteration of the loop cell, its statements in one step.
CourseIteration ==
    /\ iters < CourseSteps
    /\ heap' = OneIteration(heap)
    /\ clock' = clock + dt
    /\ iters' = iters + 1
    /\ ticks' = ticks + 1
    /\ iter0' = heap
    /\ UNCHANGED << nb, mg, zp, cp, diff, Ksp, D, uplift_rate, runtime, dt, nt,
                    ups, bound, rng, pc, i, n, zs, shown, edits, made, fails,
                    start, chain, pre, done, fresh, ref, noises, dtD,
                    failed >>

\* The course's run of the linear-diffusion notebook, iteration by iteration.
CourseSpec == CourseReady /\ [][CourseIteration]_vars

SignNext == Next \/ \E d \in SignedDValues : HillBlock3(d)

\* The notebooks with a negative diffusivity among the values typed in.
SignSpec == Init /\ [][SignNext]_vars

\* The control flow of the loop cell: from a statement to the next one of
\* the body, and from the last one back to the first or out of the loop.
Advance ==
    /\ pc # "idle"
    /\ pc' = IF pc = "clock" THEN AfterClock
             ELSE IF pc = "plot" THEN (IF i = n THEN "idle" ELSE "uplift")
             ELSE NextPc(nb, pc)

\* The kernel runs a started cell on: it does not stop between two
\* statements of the loop cell.
FairSpec == Spec /\ WF_pc(Advance)

\* No statement of the loop cell waits for anything: wherever the loop cell
\* stands, its next statement can run.
LoopNeverBlocks ==
    pc # "idle" =>
       ENABLED (Uplift \/ DiffuseStep \/ RouteStep \/ ErodeStep \/ ClockStep
                   \/ PlotStep)

(***************************************************************************)
(* Properties of the driver loops.                                         *)
(***************************************************************************)

\* Between two iterations of the loop cell's current or last run, i of them
\* complete, the names the run read still as they were.
AtBoundary == start.on /\ (pc = "uplift" \/ (pc = "idle" /\ fresh))

\* The loop statement run last, "none" before the first one of a run.
LastDone == IF done = << >> THEN "none" ELSE done[Len(done)]

\* The sum of the elevations of grid g.
Total(g) == SumOver(g.z, NodesOf(g))

\* The diffuser moves nothing and, in the channels notebook, the eroder
\* removes nothing.
NoOpTransport == diff.D = 0 /\ (nb = "chan" => Ksp = 0)

\* C1: with the transport and erosion steps no-ops and the names of Code
\* Block 4 as it left them, after k iterations of a loop run every core node
\* stands k * U * dt above its elevation at loop start and every boundary
\* node, and every other grid, stands where it stood, for every k from 0 to
\* the iteration count.
UpliftOnly ==
    (/\ AtBoundary
     /\ NoOpTransport
     /\ nb \in Hillslope => ups = uplift_rate * dt)
    => \A id \in ObjIds :
          heap[id].z # NoField =>
             \A x \in NodesOf(heap[id]) :
                heap[id].z[x] =
                   start.heap[id].z[x]
                   + (IF id = UpliftTarget /\ heap[id].status[x] = "core"
                      THEN i * uplift_rate * dt ELSE 0)

\* C1 happens: a channels loop of two iterations has ended, uplift its only
\* effect.
UpliftOnlyWitness ==
    /\ nb = "chan" /\ pc = "idle" /\ fresh /\ start.on
    /\ NoOpTransport
    /\ i = 2
    /\ uplift_rate * dt > 0
    /\ heap[zp].z # start.heap[zp].z

\* C2: the statements of an iteration run in the order of the cell, uplift,
\* diffusion, flow routing, erosion, clock (channels) and uplift, diffusion,
\* clock (hillslope), each once: what has run of the current iteration is
\* the order's prefix up to the statement to run next.
StepOrder ==
    LET order == IF nb = "chan"
                 THEN << "uplift", "diffuse", "route", "erode", "clock" >>
                 ELSE << "uplift", "diffuse", "clock" >>
    IN  /\ pc = "uplift" => done = (IF i = 0 THEN << >> ELSE order)
        /\ pc = "plot" => done = order
        /\ pc \notin {"idle", "uplift", "plot"} =>
              \E j \in 2..Len(order) :
                 order[j] = pc /\ done = SubSeq(order, 1, j - 1)
        /\ (pc = "idle" /\ fresh /\ n > 0) => done = order
        /\ (nb \in Hillslope) => pc \notin {"route", "erode"}

\* C2 happens: the second iteration of a channels loop is complete.
StepOrderWitness ==
    /\ nb = "chan" /\ pc = "idle" /\ fresh /\ i = 2
    /\ done = << "uplift", "diffuse", "route", "erode", "clock" >>

\* C3: the uplift statement changes elevations at core nodes only: right
\* after it every boundary node of every grid stands where it stood right
\* before it, and what changed is the array the statement names.
UpliftSparesBoundary ==
    LastDone = "uplift" =>
       \A id \in ObjIds :
          heap[id].z # NoField =>
             \A x \in NodesOf(heap[id]) :
                heap[id].z[x] # pre[id].z[x] =>
                   /\ id = UpliftTarget
                   /\ heap[id].status[x] = "core"
                   /\ heap[mg].status[x] = "core"

\* C3 happens: the uplift statement has just raised the core nodes of a grid
\* that has boundary nodes.
UpliftSparesBoundaryWitness ==
    /\ LastDone = "uplift"
    /\ BoundaryNodes(heap[UpliftTarget]) # {}
    /\ \A x \in CoreNodes(heap[UpliftTarget]) :
          heap[UpliftTarget].z[x] > pre[UpliftTarget].z[x]
    /\ CoreNodes(heap[UpliftTarget]) # {}

\* C4: every node of every grid is in exactly one of the sets core and
\* boundary, and from the start of a loop run on the status of every node is
\* what it was at the start.
PartitionFixed ==
    /\ \A id \in ObjIds :
          heap[id].live =>
             /\ CoreNodes(heap[id]) \cap BoundaryNodes(heap[id]) = {}
             /\ CoreNodes(heap[id]) \cup BoundaryNodes(heap[id])
                   = NodesOf(heap[id])
    /\ start.on =>
          \A id \in ObjIds : heap[id].status = start.heap[id].status

\* C4 happens: a channels loop has run over a grid with core, open and
\* closed nodes and has changed its elevations.
PartitionFixedWitness ==
    /\ nb = "chan" /\ start.on /\ pc = "idle" /\ fresh /\ i >= 2
    /\ heap[cp].z # start.heap[cp].z
    /\ CoreNodes(heap[cp]) # {}
    /\ OpenNodes(heap[cp]) # {}
    /\ BoundaryNodes(heap[cp]) # OpenNodes(heap[cp])

\* C5: during a loop run the clock never falls below its value at loop start
\* and stands k * dt above it after k completed iterations.
ClockAdvance ==
    start.on => /\ clock = start.clock + i * dt
                /\ clock >= start.clock
                /\ i > 0 => dt > 0

\* C5 happens: a loop that started with the clock past zero has ended.
ClockAdvanceWitness ==
    /\ start.on /\ pc = "idle" /\ fresh
    /\ start.clock > 0
    /\ i = n /\ n >= 2

TwoRunsAreOne ==
    (pc = "idle" /\ fresh /\ chain.on) =>
       /\ heap = Iterated(chain.heap, 2 * n)
       /\ clock = chain.clock + 2 * n * dt

\* C7 happens: the second of two successive loop runs of two iterations has
\* ended, both having changed the heap.
TwoRunsAreOneWitness ==
    /\ pc = "idle" /\ fresh /\ chain.on /\ start.on
    /\ n >= 2
    /\ start.heap # chain.heap
    /\ heap # start.heap

\* C8: a loop run ends, after as many iterations as the sequence evaluated at
\* its start is long, nt of them; in the channels notebook that is the
\* number of multiples of dt below tmax; the count does not change while
\* the loop runs.
LoopRunsItsCount ==
    /\ [](start.on => (n = Max2(nt, 0) /\ i <= n))
    /\ []((start.on /\ pc = "idle") => i = n)
    /\ []((nb = "chan" /\ "B4" \in bound /\ runtime > 0) =>
             (nt * dt >= runtime /\ (nt - 1) * dt < runtime))
    /\ (pc # "idle") ~> (pc = "idle")

\* C8 happens: a channels loop over a tmax that is no multiple of dt has
\* ended after its three iterations.
LoopRunsItsCountWitness ==
    /\ nb = "chan" /\ pc = "idle" /\ fresh /\ start.on
    /\ runtime % dt # 0
    /\ i = 3 /\ n = 3

CoreTotal(g) == SumOver(g.z, CoreNodes(g))

\* An iteration of a hillslope loop is complete; its uplift was positive and
\* its dt within the stability limit of the diffuser's D.
HillIterationDone ==
    /\ nb \in Hillslope /\ LastDone = "clock"
    /\ ups > 0
    /\ diff.D >= 0
    /\ dt * diff.D <= 50 * heap[mg].dx * heap[mg].dx

\* C11 as the specification states it: in the hillslope loops, whatever state
\* the loop started from, the elevation summed over the core nodes is after
\* an iteration not less than it was before it.
CoreTotalNeverFalls ==
    HillIterationDone =>
       CoreTotal(heap[mg]) >= CoreTotal(iter0[mg])

\* C11: in a hillslope loop that started on the flat field of Code Block 2,
\* with positive uplift and dt within the stability limit of the diffuser's
\* D, the elevation summed over the core nodes is after an iteration not
\* less than it was before it.
RisesFromFlat ==
    (HillIterationDone /\ start.on /\ start.heap[mg].age = 0)
    => CoreTotal(heap[mg]) >= CoreTotal(iter0[mg])

\* C11 happens: the second iteration of a run from the flat field is
\* complete, the diffuser has carried material out of the grid, and the core
\* nodes hold more than before the iteration.
RisesFromFlatWitness ==
    /\ HillIterationDone
    /\ start.on /\ start.heap[mg].age = 0
    /\ diff.D > 0 /\ mg = cp
    /\ i >= 2
    /\ CoreTotal(iter0[mg]) > 0
    /\ CoreTotal(heap[mg]) > CoreTotal(iter0[mg])
    /\ CoreTotal(heap[mg]) < CoreTotal(iter0[mg])
                                + ups * Cardinality(CoreNodes(heap[mg]))

\* The elevation arrays of the grids.
Elevations == [id \in ObjIds |-> heap[id].z]

\* C12: the plot branch of the hillslope loops and the diagnostic cells
\* (cross-section, flow accumulator, relief window, channel profiler,
\* steepness finder) leave every elevation array, the clock, dt and the
\* uplift increment as they were.
DiagnosticsKeepState ==
    [][(Diagnostic \/ PlotStep) =>
          /\ Elevations' = Elevations
          /\ clock' = clock
          /\ dt' = dt
          /\ ups' = ups
          /\ uplift_rate' = uplift_rate]_vars

\* C12 happens: Code Block 9 has run its flow accumulator on a field that
\* the loop has raised, and displays a slope that is not zero.
DiagnosticsKeepStateWitness ==
    /\ shown.cell = "B9"
    /\ heap[mg].age > 0 /\ clock > 0
    /\ \E x \in CoreNodes(heap[mg]) :
          heap[mg].slope[x] > 0 /\ shown.data[x] = heap[mg].slope[x]

\* The fields the flow routing derives from the elevation.
DerivedOf(g) == << g.rcvr, g.slope, g.area >>

DerivedFields == [id \in ObjIds |-> DerivedOf(heap[id])]

\* C13: the uplift, diffusion, erosion and clock statements (and the plot
\* branch) leave the receivers, slopes and drainage areas of every grid as
\* they were; after the routing statement they are those of the elevation
\* as it is then, and so after the erosion statement of the channels loop
\* those of the elevation before that statement.
DerivedFieldsStale ==
    /\ [][(Uplift \/ DiffuseStep \/ ErodeStep \/ ClockStep \/ PlotStep)
            => DerivedFields' = DerivedFields]_vars
    /\ [](LastDone = "route" =>
             /\ DerivedOf(heap[cp]) = DerivedOf(Route(pre[cp], TRUE))
             /\ Elevations = [id \in ObjIds |-> pre[id].z])
    /\ [](LastDone = "erode" =>
             DerivedOf(heap[cp]) = DerivedOf(Route(pre[cp], TRUE)))

\* C13 happens: an iteration of the channels loop is complete, the eroder
\* has cut, and routing the flow over the elevation as it is now would give
\* other slopes than the grid holds.
DerivedFieldsStaleWitness ==
    /\ nb = "chan" /\ LastDone = "clock"
    /\ Route(heap[cp], TRUE).slope # heap[cp].slope
    /\ \E x \in CoreNodes(heap[cp]) : heap[cp].slope[x] > 0

\* 0.5 * dx * dx of the diffuser's grid, in the units of dt * D.
StabilityLimit == 50 * heap[cp].dx * heap[cp].dx

\* C14 as the specification states it: whatever cells ran before the loop,
\* the dt the hillslope loops pass to the diffuser is at most 0.5 * dx^2 / D
\* for the D the diffuser was constructed with.
StepWithinStability ==
    (nb \in Hillslope /\ pc = "diffuse") => dt * diff.D <= StabilityLimit

\* C14: the dt the hillslope loops pass to the diffuser is 0.5 * dx^2 / D for
\* the D that Code Block 4 read, and at most 0.5 * dx^2 / D for the
\* diffuser's D if Code Block 3 has not constructed a diffuser with a larger
\* D since.
StepWithinBlock4Limit ==
    (nb \in Hillslope /\ pc = "diffuse") =>
       /\ dtD > 0
       /\ dt = StabilityDt(heap[cp].dx, dtD)
       /\ dt * dtD <= StabilityLimit
       /\ diff.D <= dtD => dt * diff.D <= StabilityLimit

\* C14 happens: the second iteration of a hillslope loop is about to diffuse
\* with the D Code Block 4 read, dt at the limit.
StepWithinBlock4LimitWitness ==
    /\ nb \in Hillslope /\ pc = "diffuse" /\ i >= 1
    /\ diff.D = dtD /\ dtD > 0 /\ mg = cp
    /\ dt * diff.D = StabilityLimit

\* The largest value of the sequence f.
MaxOf(f) == f[CHOOSE a \in DOMAIN f : \A b \in DOMAIN f : f[a] >= f[b]]

\* The analytical profile at the y of row r of the grid; the last row lies
\* at the end of the hillslope, beyond the last sample.
ProfileAtRow(g, r) ==
    IF (r - 1) * g.dx + 1 \in DOMAIN zs THEN zs[(r - 1) * g.dx + 1] ELSE 0

\* The iteration after which the run is taken to be steady: three quarters
\* of the iterations followed.
SteadyAfter == (3 * CourseSteps) \div 4

\* C15: on the course's 41 x 5 grid with D = 0.01, uplift_rate = 0.0001 and
\* dt at the stability limit, the highest elevation of the cross-section
\* rises from iteration to iteration without passing the analytical peak,
\* and from iteration SteadyAfter on the cross-section lies within 3 percent
\* of the analytical peak from the analytical profile, at the peak and at
\* every row.
ConvergesToProfile ==
    LET g    == heap[mg]
        peak == MaxOf(zs)
    IN  /\ MaxOf(CrossSection(g)) <= peak
        /\ iter0 # NoHeap =>
              MaxOf(CrossSection(g)) >= MaxOf(CrossSection(iter0[mg]))
        /\ iters >= SteadyAfter =>
              /\ 100 * (peak - MaxOf(CrossSection(g))) <= 3 * peak
              /\ \A r \in 1..g.rows :
                    100 * Abs(ProfileAtRow(g, r) - CrossSection(g)[r])
                       <= 3 * peak

\* C15 happens: the loop cell has run twice on the course's grid and the
\* highest elevation is within 3 percent of the analytical peak of 50 m,
\* which it has not reached.
ConvergesToProfileWitness ==
    /\ heap[mg].rows = CourseRows /\ heap[mg].cols = CourseCols
    /\ MaxOf(zs) = 5000000
    /\ iters = 2 * nt
    /\ MaxOf(CrossSection(heap[mg])) < MaxOf(zs)
    /\ 100 * (MaxOf(zs) - MaxOf(CrossSection(heap[mg]))) <= 3 * MaxOf(zs)

\* The closed form (U / 2D) * (L^2 / 4 - (y - L / 2)^2) = (U / 2D) * y * (L - y)
\* in 1e-5 m, for D > 0.
ClosedForm(L, u, d, y) == TruncDiv(100 * u * y * (L - y), 2 * d)

\* C16: the profile Code Block 5 assigns for a positive D is the closed form
\* with L = (number of node rows - 1) * dx at y = 0, 1, ..., L - 1: it is 0
\* at y = 0, nowhere negative, the same at y and at L - y, nowhere above
\* U * L^2 / (8D), and that at y = L / 2 where L / 2 is sampled.
ProfileIsClosedForm ==
    [][(HillBlock5 /\ D > 0) =>
          LET L == (heap[mg].rows - 1) * heap[mg].dx
              z == zs'
              top == TruncDiv(100 * uplift_rate * L * L, 8 * D)
          IN  /\ DOMAIN z = 1..L
              /\ \A y \in 0..(L - 1) :
                    /\ z[y + 1] = ClosedForm(L, uplift_rate, D, y)
                    /\ z[y + 1] >= 0
                    /\ z[y + 1] <= top
                    /\ y >= 1 => z[y + 1] = z[(L - y) + 1]
              /\ z[1] = 0
              /\ L % 2 = 0 => z[(L \div 2) + 1] = top]_vars

\* C16 happens: Code Block 5 has run with an uplift rate that is not the
\* course's, and the profile it assigned rises from 0 at y = 0.
ProfileIsClosedFormWitness ==
    /\ nb \in Hillslope /\ "B5" \in bound
    /\ uplift_rate = 4 * Uplift0 /\ D > 0
    /\ zs = AnalyticProfile(heap[mg].rows, heap[mg].dx, uplift_rate, D)
    /\ zs[1] = 0 /\ zs[2] > 0
    /\ zs[2] = zs[Len(zs)]

\* A statement of the loop cell runs.
LoopStatement ==
    Uplift \/ DiffuseStep \/ RouteStep \/ ErodeStep \/ ClockStep \/ PlotStep

\* C17: once a component has raised in iteration i + 1 of a loop, the loop
\* cell has stopped: the statements before the one that failed are the
\* last that ran, the clock stands at the i iterations completed, and no
\* statement of the loop runs until the loop cell is executed again.
FailureHalts ==
    /\ [](failed =>
             /\ pc = "idle" /\ ~fresh
             /\ i < n
             /\ done # << >> /\ Len(done) < Len(Body(nb))
             /\ done = SubSeq(Body(nb), 1, Len(done))
             /\ LastDone # "clock"
             /\ start.on /\ clock = start.clock + i * dt)
    /\ [][failed => ~LoopStatement]_vars

\* C17 happens: the eroder has raised in the second iteration of a channels
\* loop, after the uplift, the diffuser and the flow routing of that
\* iteration.
FailureHaltsWitness ==
    /\ failed /\ nb = "chan"
    /\ i = 1 /\ n >= 2
    /\ done = << "uplift", "diffuse", "route" >>
    /\ clock = dt

\* The setup cells completed with the D there is now: Code Block 3
\* constructed the diffuser with it and Code Block 4 derived dt from it.
SetupCompletedWithD ==
    /\ {"B2", "B3", "B4"} \subseteq bound
    /\ diff.D = D
    /\ dtD = D

\* C18: in the pure-diffusion notebooks no loop cell completes normally
\* after setup cells that completed with a diffusivity D <= 0.
NonPositiveDRaises ==
    (nb \in Hillslope /\ fresh /\ D <= 0) => ~SetupCompletedWithD

\* Code Block 4 ran to its end with the run length there is: the count of
\* iterations is the one it derives from that run length.  (A Code Block 4
\* that stops at its division has assigned the run length and not the
\* count.)
Block4Completed ==
    /\ "B4" \in bound
    /\ nt = IF nb \in Hillslope THEN FloorDiv(runtime, dt)
            ELSE ArangeLen(runtime, dt)

\* A loop of notebook book has run to its end from a clock of zero, with
\* the positive run length and the positive step of a completed Code
\* Block 4.
RanFromZero(book) ==
    /\ nb = book /\ fresh
    /\ start.on /\ start.clock = 0
    /\ runtime > 0 /\ dt > 0
    /\ Block4Completed

MidRunSnapshot ==
    /\ []((nb \in Hillslope /\ fresh) =>
             IF n >= 1
             THEN /\ shown.cell = "B7"
                  /\ shown.data[3] = start.clock + ((n \div 2) + 1) * dt
             ELSE shown = NoShow)
    /\ [][PlotStep =>
             /\ shown = NoShow
             /\ nb \in Hillslope /\ n = nt
             /\ i = (nt \div 2) + 1
             /\ done = << "uplift", "diffuse", "clock" >>
             /\ clock = start.clock + i * dt
             /\ shown'.data[1] = CrossSection(heap[mg])
             /\ shown'.data[3] = clock]_vars

\* C21 happens: a loop of three iterations has ended and its plot is that
\* of the second iteration, one step before the end.
MidRunSnapshotWitness ==
    /\ nb \in Hillslope /\ fresh
    /\ n = 3
    /\ shown.cell = "B7"
    /\ shown.data[3] = start.clock + 2 * dt
    /\ clock = start.clock + 3 * dt

\* What the statement at s writes to the heap h.
Written(s, h) ==
    IF s = "uplift" THEN AfterUplift(h) ELSE AfterStatement(s, h)

RECURSIVE AfterAll(_, _)
\* The heap after the statements of the sequence ss, one after another.
AfterAll(ss, h) ==
    IF ss = << >> THEN h
    ELSE Written(ss[Len(ss)], AfterAll(SubSeq(ss, 1, Len(ss) - 1), h))

\* The statements of the iteration under way that have run.
UnderWay == IF pc \in {"idle", "uplift", "plot"} THEN << >> ELSE done

\* C22: the iterations of a loop run one after another and the loop's
\* statement in turn is the only writer of the grids: the uplift of an
\* iteration starts from the loop's start or from the end of the clock
\* statement (or plot) of the iteration before it; the iteration index
\* moves by one, at the clock statement; while the loop runs the heap
\* changes as the statement in turn writes it and not otherwise; and the
\* heap is at every moment that of i whole iterations on the heap the loop
\* started from, followed by the statements of iteration i + 1 that have
\* run.
OneIterationAtATime ==
    /\ [][(pc' = "uplift" /\ pc # "uplift") =>
             \/ pc = "idle" /\ i' = 0
             \/ pc = "clock" /\ i' = i + 1 /\ clock' = start.clock + i' * dt
             \/ pc = "plot" /\ i' = i /\ clock' = start.clock + i * dt]_vars
    /\ [][i' # i => \/ pc = "clock" /\ i' = i + 1
                    \/ pc = "idle" /\ pc' \in {"idle", "uplift"} /\ i' = 0]_vars
    /\ [][pc # "idle" => heap' = Written(pc, heap)]_vars
    /\ []((pc # "idle" \/ fresh) =>
             /\ start.on /\ i <= n
             /\ clock = start.clock + i * dt
             /\ heap = AfterAll(UnderWay, Iterated(start.heap, i)))

\* C22 happens: the second iteration of a channels loop is under way, its
\* uplift, diffusion and flow routing done on the grid the first iteration
\* left, and the erosion in turn.
OneIterationAtATimeWitness ==
    /\ nb = "chan" /\ pc = "erode"
    /\ i = 1
    /\ done = << "uplift", "diffuse", "route" >>
    /\ heap # OneIteration(start.heap)
    /\ Elevations # [id \in ObjIds |-> start.heap[id].z]

\* The heap h with the derived fields d on the grid of the components.
WithDerived(h, d) ==
    [h EXCEPT ![cp].rcvr = d[1], ![cp].slope = d[2], ![cp].area = d[3]]

\* The heap as it is but for the derived fields of the components' grid:
\* those of a flow routing over the elevation as it is now, those the loop
\* started from, and those of a grid that has not been routed.
OtherDerived ==
    {WithDerived(heap, d) :
        d \in {DerivedOf(Route(heap[cp], TRUE)),
               DerivedOf(start.heap[cp]),
               << [x \in NodesOf(heap[cp]) |-> x],
                  [x \in NodesOf(heap[cp]) |-> 0],
                  [x \in NodesOf(heap[cp]) |-> 0] >>}}

\* The elevation arrays of the heap h.
ElevationsOf(h) == [id \in ObjIds |-> h[id].z]

\* C23: in the channels loop the uplift and the diffusion statements read
\* of the flow routing and the erosion nothing but the elevation: on a heap
\* that differs from the present one in the receivers, slopes and drainage
\* areas only, each of the two statements, and the two in sequence, leave
\* the elevations they leave on the present one.
UpliftAndDiffusionReadElevation ==
    /\ [][(nb = "chan" /\ pc \in {"uplift", "diffuse"}) =>
             \A v \in OtherDerived :
                ElevationsOf(Written(pc, v)) = Elevations']_vars
    /\ []((nb = "chan" /\ pc = "uplift") =>
             \A v \in OtherDerived :
                ElevationsOf(AfterDiffuse(AfterUplift(v)))
                   = ElevationsOf(AfterDiffuse(AfterUplift(heap))))

\* C23 happens: the second iteration of a channels loop is about to start
\* on a grid whose slopes and drainage areas are not those of its
\* elevation, and its diffusion step will move material.
UpliftAndDiffusionReadElevationWitness ==
    /\ nb = "chan" /\ pc = "uplift" /\ i = 1
    /\ \E v \in OtherDerived :
          /\ v[cp].slope # heap[cp].slope
          /\ v[cp].area # heap[cp].area
    /\ \E x \in CoreNodes(heap[cp]) : heap[cp].slope[x] > 0
    /\ ElevationsOf(AfterDiffuse(AfterUplift(heap)))
          # ElevationsOf(AfterUplift(heap))

\* The elevation array z is zero at every node.
Flat(z) == \A x \in DOMAIN z : z[x] = 0

\* The elevation array z is the seeded noise, a value from 0 up to but not
\* including 0.001 m at every node.
SeededNoise(z) ==
    /\ z = Noise(Seed % NoiseRange, Len(z))
    /\ \A x \in DOMAIN z : 0 <= z[x] /\ z[x] < NoiseRange

\* C24: until the first iteration of the first loop starts, every elevation
\* array there is is zero at every node, core and boundary (hillslope), or
\* the seeded noise at every node (channels); and whenever Code Block 2
\* (hillslope) or Code Block 3 (channels) runs, the elevation array it
\* makes is that.
StartsFlatOrNoisy ==
    /\ [](iters = 0 =>
             \A id \in ObjIds :
                (heap[id].live /\ heap[id].z # NoField) =>
                   /\ DOMAIN heap[id].z = NodesOf(heap[id])
                   /\ IF nb \in Hillslope THEN Flat(heap[id].z)
                      ELSE SeededNoise(heap[id].z))
    /\ [][HillBlock2 => Flat(heap'[mg'].z) /\ heap'[mg'].age = 0]_vars
    /\ [][ChanBlock3 => SeededNoise(heap'[zp'].z) /\ zp' = mg'
                         /\ heap'[mg'].age = 0]_vars

\* C24 happens: the first loop of a channels kernel is about to run its
\* first uplift on the noise, boundary nodes included.
StartsFlatOrNoisyWitness ==
    /\ nb = "chan" /\ pc = "uplift" /\ i = 0 /\ iters = 0
    /\ SeededNoise(heap[zp].z)
    /\ \E x \in BoundaryNodes(heap[zp]), y \in CoreNodes(heap[zp]) :
          heap[zp].z[x] > 0 /\ heap[zp].z[y] > 0

\* Node x of grid g is one of the four corners.
IsCorner(g, x) ==
    /\ RowOf(g, x) \in {0, g.rows - 1}
    /\ ColOf(g, x) \in {0, g.cols - 1}

\* The nodes the uplift statement raises on the heap as it is.
UpliftedNodes ==
    {x \in NodesOf(heap[mg]) : AfterUplift(heap)[mg].z[x] # heap[mg].z[x]}

SouthEdge(g) == {x \in NodesOf(g) : RowOf(g, x) = 0}

\* The perimeter nodes of grid g where the seeded noise is lowest.
LowestOfNoise(g) ==
    LET noise == Noise(Seed % NoiseRange, g.rows * g.cols)
        perim == {x \in NodesOf(g) : IsPerimeter(g, x)}
    IN  {x \in perim : \A y \in perim : noise[x] <= noise[y]}

Block4NamesAgree == nb \in Hillslope => ups = uplift_rate * dt

\* The uplift statements applied to the array the loop raises since the
\* loop started.
UpliftsApplied == heap[UpliftTarget].age - start.heap[UpliftTarget].age

\* C27: one dt serves every statement of every iteration.  While a loop
\* runs, dt, the uplift rate and the increment stay as they are; the
\* uplift statement adds uplift_rate * dt at every core node and nothing
\* elsewhere; the diffuser and the eroder are run with that dt and the
\* clock moves by it; and between iterations the uplift statements applied
\* since the loop started, uplift_rate * dt each, amount to uplift_rate
\* times the advance of the clock since then.
OneStepForAll ==
    /\ [][pc # "idle" =>
             /\ dt' = dt /\ ups' = ups /\ uplift_rate' = uplift_rate]_vars
    /\ [][(Uplift /\ Block4NamesAgree) =>
             \A x \in NodesOf(heap[UpliftTarget]) :
                heap'[UpliftTarget].z[x] - heap[UpliftTarget].z[x]
                   = IF x \in CoreNodes(heap[mg])
                     THEN uplift_rate * dt ELSE 0]_vars
    /\ [][DiffuseStep => heap'[cp] = Diffuse(heap[cp], diff, dt)]_vars
    /\ [][ErodeStep => heap'[cp] = Erode(heap[cp], Ksp, dt)]_vars
    /\ [][ClockStep => clock' - clock = dt]_vars
    /\ []((AtBoundary /\ Block4NamesAgree) =>
             /\ UpliftsApplied = i
             /\ UpliftsApplied * UpliftIncrement
                   = uplift_rate * (clock - start.clock))

\* C27 happens: three iterations of a hillslope loop are complete, with a
\* dt that is not the channels notebook's and an uplift applied of three
\* times uplift_rate * dt.
OneStepForAllWitness ==
    /\ nb \in Hillslope /\ AtBoundary /\ Block4NamesAgree
    /\ i = 3 /\ UpliftsApplied = 3
    /\ dt # 1000 /\ uplift_rate > 0
    /\ clock - start.clock = 3 * dt
    /\ \E x \in CoreNodes(heap[mg]) : heap[mg].z[x] > 0

\* In a hillslope kernel a cell other than a completing Code Block 4 has
\* assigned D or uplift_rate in this step: Code Block 3, or a Code Block 4
\* that stops at its division by D = 0.
AssignedWithoutBlock4 ==
    /\ nb \in Hillslope
    /\ \/ D' # D
       \/ uplift_rate' # uplift_rate /\ D = 0

\* C28: in the hillslope loops the increment is uplift_per_step as Code
\* Block 4 computed it: the loop leaves it, dt and nt as they are and
\* adds it at every core node in every iteration; the loop runs nt
\* iterations; a cell that assigns D or uplift_rate without Code Block 4
\* running to its end leaves uplift_per_step, dt and nt as they were, so
\* that the next loop run uses them, whatever D and uplift_rate are by
\* then; and dt is at all times the one of the D that Code Block 4 saw.
IncrementIsBlock4s ==
    /\ [][AssignedWithoutBlock4 =>
             /\ ups' = ups /\ dt' = dt /\ nt' = nt]_vars
    /\ [][(nb \in Hillslope /\ pc # "idle") =>
             /\ ups' = ups /\ dt' = dt /\ nt' = nt]_vars
    /\ [][(nb \in Hillslope /\ pc = "idle" /\ pc' = "uplift") =>
             n' = nt /\ UNCHANGED << ups, dt, nt >>]_vars
    /\ [][(nb \in Hillslope /\ pc = "uplift") =>
             \A x \in CoreNodes(heap[mg]) :
                heap'[mg].z[x] = heap[mg].z[x] + ups]_vars
    /\ []((nb \in Hillslope /\ "B4" \in bound) =>
             dt = StabilityDt(heap[mg].dx, dtD))

\* C28 happens: a hillslope loop has run to its end after Code Block 3
\* assigned a D other than the one Code Block 4 had seen: its dt is the one
\* of the old D, and its iterations are as many as Code Block 4 counted.
IncrementIsBlock4sWitness ==
    /\ nb \in Hillslope /\ fresh
    /\ D > 0 /\ D # dtD /\ diff.D = D
    /\ dt # StabilityDt(HillDx, D)
    /\ n = nt /\ n >= 2 /\ i = n
    /\ UpliftsApplied = n
    /\ ups > 0

====
